---- MODULE Spec2Model ----
(***************************************************************************)
(* toonapilib helpers: the Switch / SmartPlug / Light device objects, the  *)
(* snapshot lookup they share, their memoized fields, and the write path   *)
(* (GET, PUT, cache invalidation) of _change_state.                        *)
(*                                                                         *)
(* A method of the library is an operator from an execution context        *)
(*   ctx = [self, cache, remote, trace]                                    *)
(* to a result [ret, ctx]: the value returned and the context it leaves.   *)
(* `trace` is the list of observable events of the call in progress:       *)
(* snapshot fetches and lookups, HTTP requests, cache invalidations.       *)
(***************************************************************************)
EXTENDS Integers, Sequences, FiniteSets, TLC

VARIABLES
    remote,   \* the document the remote service currently holds
    cache,    \* the session's cached snapshot: <<>> or <<snapshot>>
    self,     \* the device object's attributes
    last,     \* the call that just returned: [op, arg, ret]
    trace     \* the events of that call, in order

vars == <<remote, cache, self, last, trace>>

----------------------------------------------------------------------------
(* Python values.  Every value carries its type, so that 1, True and "1"   *)
(* are three values, as they are in the JSON the library sends.            *)

None == [t |-> "NoneType"]
PyInt(i) == [t |-> "int", i |-> i]
PyBool(b) == [t |-> "bool", b |-> b]
PyStr(s) == [t |-> "str", s |-> s]

\* bool(v): the truth value of a Python value
Truthy(v) ==
    CASE v.t = "NoneType" -> FALSE
      [] v.t = "bool" -> v.b
      [] v.t = "int" -> v.i # 0
      [] v.t = "str" -> v.s # ""

\* not v
PyNot(v) == PyBool(~Truthy(v))

\* int(v), for the booleans and integers _change_state is called with
PyIntOf(v) ==
    CASE v.t = "bool" -> PyInt(IF v.b THEN 1 ELSE 0)
      [] v.t = "int" -> v

\* a == b
PyEq(a, b) ==
    IF a.t \in {"int", "bool"} /\ b.t \in {"int", "bool"}
    THEN PyIntOf(a).i = PyIntOf(b).i
    ELSE a = b

\* '{}'.format(v)
Format(v) ==
    CASE v.t = "NoneType" -> "None"
      [] v.t = "bool" -> (IF v.b THEN "True" ELSE "False")
      [] v.t = "int" -> ToString(v.i)
      [] v.t = "str" -> v.s

\* A JSON object (a dict): a function from some keys to values.
EmptyDict == [k \in {} |-> None]

\* d.get(k)
Get(d, k) == IF k \in DOMAIN d THEN d[k] ELSE None

\* d[k] = v
SetItem(d, k, v) == [x \in DOMAIN d \cup {k} |-> IF x = k THEN v ELSE d[x]]

Min(S) == CHOOSE i \in S : \A j \in S : i <= j

----------------------------------------------------------------------------
(* The session (toon_instance): its cached status snapshot and the remote  *)
(* service behind it.                                                      *)

api_url == "https://api.toon.eu/toon/v3"

Log(ctx, event) == [ctx EXCEPT !.trace = Append(@, event)]

\* toon.status: the cached snapshot, fetched from the service when the
\* cache holds none.
toon_status(ctx) ==
    IF ctx.cache = <<>>
    THEN [ret |-> ctx.remote,
          ctx |-> Log([ctx EXCEPT !.cache = <<ctx.remote>>], [ev |-> "fetch"])]
    ELSE [ret |-> ctx.cache[1], ctx |-> ctx]

\* toon._clear_cache()
_clear_cache(ctx) ==
    [ret |-> None, ctx |-> Log([ctx EXCEPT !.cache = <<>>], [ev |-> "clear_cache"])]

\* The device resources the service holds: one per entry of deviceStatusInfo.
DeviceUrl(item) == api_url \o "/devices/" \o Format(Get(item, "devUUID"))

Resource(doc, url) ==
    {i \in DOMAIN doc.deviceStatusInfo.device :
        DeviceUrl(doc.deviceStatusInfo.device[i]) = url}

\* requests.get(url, headers).json()
requests_get(ctx, url) ==
    LET hit == Resource(ctx.remote, url)
        body == IF hit = {} THEN EmptyDict
                ELSE ctx.remote.deviceStatusInfo.device[Min(hit)]
    IN [ret |-> body, ctx |-> Log(ctx, [ev |-> "GET", url |-> url, body |-> body])]

\* requests.put(url, data, headers): the service stores the body when it
\* accepts the request and keeps what it had when it rejects it.
requests_put(ctx, url, data, accepted) ==
    LET hit == Resource(ctx.remote, url)
        ok == accepted /\ hit # {}
        stored == IF ok
                  THEN [ctx EXCEPT !.remote.deviceStatusInfo.device[Min(hit)] = data]
                  ELSE ctx
    IN [ret |-> ok,
        ctx |-> Log(stored, [ev |-> "PUT", url |-> url, body |-> data, ok |-> ok])]

----------------------------------------------------------------------------
(* class Switch                                                            *)

Switch__init__(cls, device_name) ==
    [cls |-> cls,
     _name |-> device_name,
     _device_type |-> None,
     _zwave_index |-> None,
     _zwave_uuid |-> None,
     _device_uuid |-> None]

name(ctx) == [ret |-> ctx.self._name, ctx |-> ctx]

\* _get_value taking the first entry of the collection, whatever its name
_get_value_unfiltered(ctx, field, config) ==
    LET key == IF config THEN "deviceConfigInfo" ELSE "deviceStatusInfo"
        st == toon_status(ctx)
        items == st.ret[key].device
    IN [ret |-> IF items = <<>> THEN None ELSE Get(items[1], field),
        ctx |-> Log(st.ctx, [ev |-> "lookup", key |-> key, field |-> field])]

\* _get_value taking the first entry of the device that holds the field
_get_value_having(ctx, field, config) ==
    LET key == IF config THEN "deviceConfigInfo" ELSE "deviceStatusInfo"
        st == toon_status(ctx)
        items == st.ret[key].device
        hits == {i \in DOMAIN items :
                    /\ PyEq(Get(items[i], "name"), name(st.ctx).ret)
                    /\ field \in DOMAIN items[i]}
    IN [ret |-> IF hits = {} THEN None ELSE Get(items[Min(hits)], field),
        ctx |-> Log(st.ctx, [ev |-> "lookup", key |-> key, field |-> field])]

_get_value(ctx, field, config) ==
    LET key == IF config THEN "deviceConfigInfo" ELSE "deviceStatusInfo"
        st == toon_status(ctx)
        items == st.ret[key].device
        hits == {i \in DOMAIN items :
                    PyEq(Get(items[i], "name"), name(st.ctx).ret)}
    IN [ret |-> IF hits = {} THEN None ELSE Get(items[Min(hits)], field),
        ctx |-> Log(st.ctx, [ev |-> "lookup", key |-> key, field |-> field])]

is_connected(ctx) ==
    LET value == _get_value(ctx, "isConnected", FALSE)
    IN [ret |-> IF Truthy(value.ret) THEN PyBool(TRUE) ELSE PyBool(FALSE),
        ctx |-> value.ctx]

current_state(ctx) == _get_value(ctx, "currentState", FALSE)

\* is_locked memoized the way the identifiers are
is_locked_memoized(ctx) ==
    IF "_is_locked" \in DOMAIN ctx.self
    THEN [ret |-> ctx.self._is_locked, ctx |-> ctx]
    ELSE LET value == _get_value(ctx, "switchLocked", TRUE)
             memo == IF Truthy(value.ret) THEN PyBool(TRUE) ELSE PyBool(FALSE)
         IN [ret |-> memo,
             ctx |-> [value.ctx EXCEPT !.self = SetItem(@, "_is_locked", memo)]]

is_locked(ctx) ==
    LET value == _get_value(ctx, "switchLocked", TRUE)
    IN [ret |-> IF Truthy(value.ret) THEN PyBool(TRUE) ELSE PyBool(FALSE),
        ctx |-> value.ctx]

\* can_toggle with `and` in place of `or`
can_toggle_and(ctx) ==
    LET c == is_connected(ctx)
        l == is_locked(c.ctx)
    IN IF ~Truthy(c.ret) /\ Truthy(l.ret)
       THEN [ret |-> PyBool(FALSE), ctx |-> l.ctx]
       ELSE [ret |-> PyBool(TRUE), ctx |-> l.ctx]

\* False if not self.is_connected or self.is_locked else True: `or` reads
\* is_locked only when is_connected is true.
can_toggle(ctx) ==
    LET c == is_connected(ctx)
        l == is_locked(c.ctx)
    IN IF ~Truthy(c.ret) THEN [ret |-> PyBool(FALSE), ctx |-> c.ctx]
       ELSE IF Truthy(l.ret) THEN [ret |-> PyBool(FALSE), ctx |-> l.ctx]
       ELSE [ret |-> PyBool(TRUE), ctx |-> l.ctx]

\* status dropping the session's cache before it reads the state
status_refreshed(ctx) ==
    LET c == current_state(_clear_cache(ctx).ctx)
    IN [ret |-> IF Truthy(c.ret) THEN PyStr("on") ELSE PyStr("off"), ctx |-> c.ctx]

status(ctx) ==
    LET c == current_state(ctx)
    IN [ret |-> IF Truthy(c.ret) THEN PyStr("on") ELSE PyStr("off"), ctx |-> c.ctx]

device_uuid(ctx) ==
    IF ~Truthy(ctx.self._device_uuid)
    THEN LET v == _get_value(ctx, "devUUID", FALSE)
         IN [ret |-> v.ret, ctx |-> [v.ctx EXCEPT !.self._device_uuid = v.ret]]
    ELSE [ret |-> ctx.self._device_uuid, ctx |-> ctx]

device_type(ctx) ==
    IF ~Truthy(ctx.self._device_type)
    THEN LET v == _get_value(ctx, "devType", TRUE)
         IN [ret |-> v.ret, ctx |-> [v.ctx EXCEPT !.self._device_type = v.ret]]
    ELSE [ret |-> ctx.self._device_type, ctx |-> ctx]

in_switch_all_group(ctx) ==
    LET value == _get_value(ctx, "inSwitchAll", TRUE)
    IN [ret |-> IF Truthy(value.ret) THEN PyBool(TRUE) ELSE PyBool(FALSE),
        ctx |-> value.ctx]

in_switch_schedule(ctx) ==
    LET value == _get_value(ctx, "inSwitchSchedule", TRUE)
    IN [ret |-> IF Truthy(value.ret) THEN PyBool(TRUE) ELSE PyBool(FALSE),
        ctx |-> value.ctx]

\* zwave_index testing the attribute against None
zwave_index_is_none(ctx) ==
    IF ctx.self._zwave_index = None
    THEN LET v == _get_value(ctx, "position", TRUE)
         IN [ret |-> v.ret, ctx |-> [v.ctx EXCEPT !.self._zwave_index = v.ret]]
    ELSE [ret |-> ctx.self._zwave_index, ctx |-> ctx]

zwave_index(ctx) ==
    IF ~Truthy(ctx.self._zwave_index)
    THEN LET v == _get_value(ctx, "position", TRUE)
         IN [ret |-> v.ret, ctx |-> [v.ctx EXCEPT !.self._zwave_index = v.ret]]
    ELSE [ret |-> ctx.self._zwave_index, ctx |-> ctx]

zwave_uuid(ctx) ==
    IF ~Truthy(ctx.self._zwave_uuid)
    THEN LET v == _get_value(ctx, "zwUuid", TRUE)
         IN [ret |-> v.ret, ctx |-> [v.ctx EXCEPT !.self._zwave_uuid = v.ret]]
    ELSE [ret |-> ctx.self._zwave_uuid, ctx |-> ctx]

\* _change_state sending the state as it was given, without int()
_change_state_uncoerced(ctx, state, accepted) ==
    LET ct == can_toggle(ctx)
        id == device_uuid(ct.ctx)
        url == api_url \o "/devices/" \o Format(id.ret)
        got == requests_get(id.ctx, url)
        data == SetItem(got.ret, "currentState", state)
        response == requests_put(got.ctx, url, data, accepted)
        cleared == _clear_cache(response.ctx)
    IN IF ~Truthy(ct.ret)
       THEN [ret |-> PyBool(FALSE), ctx |-> Log(ct.ctx, [ev |-> "warning"])]
       ELSE [ret |-> PyBool(TRUE), ctx |-> cleared.ctx]

\* _change_state without the can_toggle check
_change_state_unguarded(ctx, state, accepted) ==
    LET id == device_uuid(ctx)
        url == api_url \o "/devices/" \o Format(id.ret)
        got == requests_get(id.ctx, url)
        data == SetItem(got.ret, "currentState", PyIntOf(state))
        response == requests_put(got.ctx, url, data, accepted)
        cleared == _clear_cache(response.ctx)
    IN [ret |-> PyBool(TRUE), ctx |-> cleared.ctx]

\* _change_state without the cache invalidation
_change_state_uncleared(ctx, state, accepted) ==
    LET ct == can_toggle(ctx)
        id == device_uuid(ct.ctx)
        url == api_url \o "/devices/" \o Format(id.ret)
        got == requests_get(id.ctx, url)
        data == SetItem(got.ret, "currentState", PyIntOf(state))
        response == requests_put(got.ctx, url, data, accepted)
    IN IF ~Truthy(ct.ret)
       THEN [ret |-> PyBool(FALSE), ctx |-> Log(ct.ctx, [ev |-> "warning"])]
       ELSE [ret |-> PyBool(TRUE), ctx |-> response.ctx]

\* _change_state reporting the answer to the PUT
_change_state_checked(ctx, state, accepted) ==
    LET ct == can_toggle(ctx)
        id == device_uuid(ct.ctx)
        url == api_url \o "/devices/" \o Format(id.ret)
        got == requests_get(id.ctx, url)
        data == SetItem(got.ret, "currentState", PyIntOf(state))
        response == requests_put(got.ctx, url, data, accepted)
        cleared == _clear_cache(response.ctx)
    IN IF ~Truthy(ct.ret)
       THEN [ret |-> PyBool(FALSE), ctx |-> Log(ct.ctx, [ev |-> "warning"])]
       ELSE [ret |-> PyBool(response.ret), ctx |-> cleared.ctx]

\* `accepted` is the remote service's answer to the PUT.
_change_state(ctx, state, accepted) ==
    LET ct == can_toggle(ctx)
        id == device_uuid(ct.ctx)
        url == api_url \o "/devices/" \o Format(id.ret)
        got == requests_get(id.ctx, url)
        data == SetItem(got.ret, "currentState", PyIntOf(state))
        response == requests_put(got.ctx, url, data, accepted)
        cleared == _clear_cache(response.ctx)
    IN IF ~Truthy(ct.ret)
       THEN [ret |-> PyBool(FALSE), ctx |-> Log(ct.ctx, [ev |-> "warning"])]
       ELSE [ret |-> PyBool(TRUE), ctx |-> cleared.ctx]

\* toggle passing the current state on, not its negation
toggle_same(ctx, accepted) ==
    LET c == current_state(ctx)
    IN _change_state(c.ctx, PyBool(Truthy(c.ret)), accepted)

\* toggle passing `current_state == 0` on
toggle_if_zero(ctx, accepted) ==
    LET c == current_state(ctx)
    IN _change_state(c.ctx, PyBool(PyEq(c.ret, PyInt(0))), accepted)

toggle(ctx, accepted) ==
    LET c == current_state(ctx)
    IN _change_state(c.ctx, PyNot(c.ret), accepted)

turn_on(ctx, accepted) == _change_state(ctx, PyInt(1), accepted)

turn_off(ctx, accepted) == _change_state(ctx, PyInt(0), accepted)

----------------------------------------------------------------------------
(* class SmartPlug(Switch)                                                 *)

SmartPlug__init__(cls, device_name) ==
    SetItem(Switch__init__(cls, device_name), "_usage_capable", None)

\* usage_capable testing the attribute the way the identifiers do
usage_capable_if_not(ctx) ==
    IF ~Truthy(ctx.self._usage_capable)
    THEN LET value == _get_value(ctx, "usageCapable", TRUE)
             memo == IF Truthy(value.ret) THEN PyBool(TRUE) ELSE PyBool(FALSE)
         IN [ret |-> memo, ctx |-> [value.ctx EXCEPT !.self._usage_capable = memo]]
    ELSE [ret |-> ctx.self._usage_capable, ctx |-> ctx]

usage_capable(ctx) ==
    IF ctx.self._usage_capable = None
    THEN LET value == _get_value(ctx, "usageCapable", TRUE)
             memo == IF Truthy(value.ret) THEN PyBool(TRUE) ELSE PyBool(FALSE)
         IN [ret |-> memo, ctx |-> [value.ctx EXCEPT !.self._usage_capable = memo]]
    ELSE [ret |-> ctx.self._usage_capable, ctx |-> ctx]

\* current_usage without the usage_capable gate
current_usage_ungated(ctx) == _get_value(usage_capable(ctx).ctx, "currentUsage", FALSE)

average_usage(ctx) ==
    LET capable == usage_capable(ctx)
    IN IF Truthy(capable.ret) THEN _get_value(capable.ctx, "avgUsage", FALSE)
       ELSE [ret |-> PyInt(0), ctx |-> capable.ctx]

current_usage(ctx) ==
    LET capable == usage_capable(ctx)
    IN IF Truthy(capable.ret) THEN _get_value(capable.ctx, "currentUsage", FALSE)
       ELSE [ret |-> PyInt(0), ctx |-> capable.ctx]

daily_usage(ctx) ==
    LET capable == usage_capable(ctx)
    IN IF Truthy(capable.ret) THEN _get_value(capable.ctx, "dayUsage", FALSE)
       ELSE [ret |-> PyInt(0), ctx |-> capable.ctx]

network_health_state(ctx) == _get_value(ctx, "networkHealthState", FALSE)

quantity_graph_uuid(ctx) == _get_value(ctx, "quantityGraphUuid", TRUE)

flow_graph_uuid(ctx) == _get_value(ctx, "flowGraphUuid", TRUE)

----------------------------------------------------------------------------
(* class Light(Switch)                                                     *)

rgb_color(ctx) == _get_value(ctx, "rgbColor", FALSE)

----------------------------------------------------------------------------
(* The three classes and the properties each defines or inherits.          *)

Classes == {"Switch", "SmartPlug", "Light"}

SwitchProperties ==
    {"name", "status", "can_toggle", "device_uuid", "is_connected",
     "current_state", "device_type", "in_switch_all_group",
     "in_switch_schedule", "zwave_index", "is_locked", "zwave_uuid"}

SmartPlugProperties ==
    {"average_usage", "current_usage", "daily_usage", "network_health_state",
     "usage_capable", "quantity_graph_uuid", "flow_graph_uuid"}

LightProperties == {"rgb_color"}

Properties(cls) ==
    SwitchProperties \cup
        (CASE cls = "SmartPlug" -> SmartPlugProperties
           [] cls = "Light" -> LightProperties
           [] OTHER -> {})

AllProperties == SwitchProperties \cup SmartPlugProperties \cup LightProperties

\* cls(toon_instance, name): Light has no __init__ of its own.
New(cls, device_name) ==
    IF cls = "SmartPlug" THEN SmartPlug__init__(cls, device_name)
    ELSE Switch__init__(cls, device_name)

\* getattr(self, p) for a property p of the object's class
getattr(ctx, p) ==
    CASE p = "name" -> name(ctx)
      [] p = "status" -> status(ctx)
      [] p = "can_toggle" -> can_toggle(ctx)
      [] p = "device_uuid" -> device_uuid(ctx)
      [] p = "is_connected" -> is_connected(ctx)
      [] p = "current_state" -> current_state(ctx)
      [] p = "device_type" -> device_type(ctx)
      [] p = "in_switch_all_group" -> in_switch_all_group(ctx)
      [] p = "in_switch_schedule" -> in_switch_schedule(ctx)
      [] p = "zwave_index" -> zwave_index(ctx)
      [] p = "is_locked" -> is_locked(ctx)
      [] p = "zwave_uuid" -> zwave_uuid(ctx)
      [] p = "average_usage" -> average_usage(ctx)
      [] p = "current_usage" -> current_usage(ctx)
      [] p = "daily_usage" -> daily_usage(ctx)
      [] p = "network_health_state" -> network_health_state(ctx)
      [] p = "usage_capable" -> usage_capable(ctx)
      [] p = "quantity_graph_uuid" -> quantity_graph_uuid(ctx)
      [] p = "flow_graph_uuid" -> flow_graph_uuid(ctx)
      [] p = "rgb_color" -> rgb_color(ctx)

----------------------------------------------------------------------------
(* Snapshot documents.  The device under observation is DeviceName; the    *)
(* entries of another device come first in both collections.               *)

DeviceName == "plug1"
OtherName == "lamp1"

\* Marks a field the document leaves out.
Absent == [t |-> "absent"]

Field(k, v) == IF v = Absent THEN EmptyDict ELSE (k :> v)

Doc(statusItems, configItems) ==
    [deviceStatusInfo |-> [device |-> statusItems],
     deviceConfigInfo |-> [device |-> configItems]]

OtherStatus ==
    [name |-> PyStr(OtherName), devUUID |-> PyStr("uuid-lamp1"),
     isConnected |-> PyBool(TRUE), currentState |-> PyInt(1),
     avgUsage |-> PyInt(11), currentUsage |-> PyInt(12), dayUsage |-> PyInt(13),
     networkHealthState |-> PyInt(5), rgbColor |-> PyStr("FF0000")]

OtherConfig ==
    [name |-> PyStr(OtherName), devType |-> PyStr("hue_light"),
     position |-> PyInt(7), switchLocked |-> PyBool(TRUE),
     zwUuid |-> PyStr("zw-lamp1"), inSwitchAll |-> PyBool(TRUE),
     inSwitchSchedule |-> PyBool(TRUE), usageCapable |-> PyBool(TRUE),
     quantityGraphUuid |-> PyStr("q-lamp1"), flowGraphUuid |-> PyStr("f-lamp1")]

\* The largest currentState the service reports.
MaxState == 2

Flags == {PyBool(TRUE), PyBool(FALSE), Absent}
States == {PyInt(i) : i \in 0..MaxState} \cup {Absent}

\* The documents of the write path: every connection flag, lock flag and
\* state of the device, and the document that does not list the device.
WriteStatus(conn, cs) ==
    Field("name", PyStr(DeviceName)) @@ Field("devUUID", PyStr("uuid-plug1"))
        @@ Field("isConnected", conn) @@ Field("currentState", cs)

WriteConfig(locked) ==
    Field("name", PyStr(DeviceName)) @@ Field("switchLocked", locked)

WriteDocs ==
    {Doc(<<OtherStatus, WriteStatus(conn, cs)>>, <<OtherConfig, WriteConfig(locked)>>) :
        conn \in Flags, cs \in States, locked \in Flags}
    \cup {Doc(<<OtherStatus>>, <<OtherConfig>>)}

WriteChanges ==
    {[key |-> "deviceStatusInfo", field |-> "isConnected", value |-> v] : v \in Flags}
    \cup {[key |-> "deviceStatusInfo", field |-> "currentState", value |-> v] : v \in States}
    \cup {[key |-> "deviceConfigInfo", field |-> "switchLocked", value |-> v] : v \in Flags}

\* The device's entries with every field of the snapshot shape.
BaseStatus ==
    [name |-> PyStr(DeviceName), devUUID |-> PyStr("uuid-plug1"),
     isConnected |-> PyBool(TRUE), currentState |-> PyInt(0),
     avgUsage |-> PyInt(21), currentUsage |-> PyInt(22), dayUsage |-> PyInt(23),
     networkHealthState |-> PyInt(1), rgbColor |-> PyStr("00FF00")]

BaseConfig ==
    [name |-> PyStr(DeviceName), devType |-> PyStr("FGWP011"),
     position |-> PyInt(1), switchLocked |-> PyBool(FALSE),
     zwUuid |-> PyStr("zw-plug1"), inSwitchAll |-> PyBool(FALSE),
     inSwitchSchedule |-> PyBool(FALSE), usageCapable |-> PyBool(TRUE),
     quantityGraphUuid |-> PyStr("q-plug1"), flowGraphUuid |-> PyStr("f-plug1")]

Base == Doc(<<OtherStatus, BaseStatus>>, <<OtherConfig, BaseConfig>>)

----------------------------------------------------------------------------
(* Actions: one per call of the caller, and the steps of the environment.  *)

NoCall == [op |-> "", arg |-> None, ret |-> None]

\* The context a call starts in.
Begin == [self |-> self, cache |-> cache, remote |-> remote, trace |-> <<>>]

Return(op, arg, r) ==
    /\ self' = r.ctx.self
    /\ cache' = r.ctx.cache
    /\ remote' = r.ctx.remote
    /\ trace' = r.ctx.trace
    /\ last' = [op |-> op, arg |-> arg, ret |-> r.ret]

Read(p) ==
    /\ p \in Properties(self.cls)
    /\ Return(p, None, getattr(Begin, p))

Toggle == \E accepted \in BOOLEAN : Return("toggle", None, toggle(Begin, accepted))

TurnOn == \E accepted \in BOOLEAN : Return("turn_on", None, turn_on(Begin, accepted))

TurnOff == \E accepted \in BOOLEAN : Return("turn_off", None, turn_off(Begin, accepted))

StateArgs == {PyInt(0), PyInt(1), PyBool(TRUE), PyBool(FALSE)}

ChangeState ==
    \E state \in StateArgs, accepted \in BOOLEAN :
        Return("_change_state", state, _change_state(Begin, state, accepted))

GetValue(field, config) ==
    Return("_get_value", [field |-> field, config |-> config],
           _get_value(Begin, field, config))

\* The session's cache expires.
Expire ==
    /\ cache # <<>>
    /\ cache' = <<>>
    /\ last' = NoCall
    /\ trace' = <<>>
    /\ UNCHANGED <<remote, self>>

\* The remote document with one field of the device's entry set or dropped.
Put(d, f, v) ==
    IF v = Absent THEN [x \in DOMAIN d \ {f} |-> d[x]] ELSE SetItem(d, f, v)

Change(doc, c) ==
    [doc EXCEPT ![c.key].device =
        [i \in DOMAIN @ |->
            IF Get(@[i], "name") = PyStr(DeviceName)
            THEN Put(@[i], c.field, c.value)
            ELSE @[i]]]

Unlisted == Doc(<<OtherStatus>>, <<OtherConfig>>)

\* The remote service's document changes in one field of the device.
RemoteSet(c) ==
    /\ Change(remote, c) # remote
    /\ remote' = Change(remote, c)
    /\ last' = NoCall
    /\ trace' = <<>>
    /\ UNCHANGED <<cache, self>>

\* The device is removed from the remote service.
RemoteRemove ==
    /\ remote # Unlisted
    /\ remote' = Unlisted
    /\ last' = NoCall
    /\ trace' = <<>>
    /\ UNCHANGED <<cache, self>>

\* The device is added to the remote service.
RemoteAdd(doc) ==
    /\ remote = Unlisted
    /\ doc # Unlisted
    /\ remote' = doc
    /\ last' = NoCall
    /\ trace' = <<>>
    /\ UNCHANGED <<cache, self>>

\* The remote service's document is replaced by another one.
RemoteReplace(doc) ==
    /\ doc # remote
    /\ remote' = doc
    /\ last' = NoCall
    /\ trace' = <<>>
    /\ UNCHANGED <<cache, self>>

InitWith(docs, classes) ==
    /\ remote \in docs
    /\ cache = <<>>
    /\ self \in {New(cls, PyStr(DeviceName)) : cls \in classes}
    /\ last = NoCall
    /\ trace = <<>>

----------------------------------------------------------------------------
(* Spec: the write path.                                                   *)

WriteReads ==
    {"status", "current_state", "can_toggle", "is_connected", "is_locked",
     "device_uuid"}

\* The write path is Switch's own and is inherited unchanged.
Init == InitWith(WriteDocs, {"Switch"})

Next ==
    \/ \E p \in WriteReads : Read(p)
    \/ Toggle
    \/ TurnOn
    \/ TurnOff
    \/ ChangeState
    \/ Expire
    \/ \E c \in WriteChanges : RemoteSet(c)
    \/ RemoteRemove
    \/ \E doc \in WriteDocs : RemoteAdd(doc)

Spec == Init /\ [][Next]_vars

----------------------------------------------------------------------------
(* SpecRead: reads of the properties that are looked up on every access,   *)
(* of the usage figures and of usage_capable, while the remote document    *)
(* changes in any one field of the device and the cache expires.           *)

ReadChanges ==
    {[key |-> "deviceStatusInfo", field |-> "isConnected", value |-> v] :
        v \in {PyBool(FALSE), Absent}}
    \cup {[key |-> "deviceStatusInfo", field |-> "currentState", value |-> v] :
        v \in {PyInt(1), Absent}}
    \cup {[key |-> "deviceStatusInfo", field |-> f, value |-> v] :
        f \in {"avgUsage", "currentUsage", "dayUsage", "networkHealthState"},
        v \in {PyInt(0), Absent}}
    \cup {[key |-> "deviceStatusInfo", field |-> "rgbColor", value |-> v] :
        v \in {PyStr("0000FF"), Absent}}
    \cup {[key |-> "deviceConfigInfo", field |-> f, value |-> v] :
        f \in {"switchLocked", "inSwitchAll", "inSwitchSchedule"},
        v \in {PyBool(TRUE), Absent}}
    \cup {[key |-> "deviceConfigInfo", field |-> "usageCapable", value |-> v] :
        v \in {PyBool(FALSE), Absent}}
    \cup {[key |-> "deviceConfigInfo", field |-> f, value |-> v] :
        f \in {"quantityGraphUuid", "flowGraphUuid"}, v \in {PyStr(""), Absent}}

ReadDocs == {Base, Unlisted} \cup {Change(Base, c) : c \in ReadChanges}

VolatileProperties ==
    {"current_state", "status", "is_connected", "is_locked", "can_toggle",
     "in_switch_all_group", "in_switch_schedule", "network_health_state",
     "rgb_color"}

UsageProperties == {"average_usage", "current_usage", "daily_usage"}

ReadReads ==
    VolatileProperties \cup UsageProperties
        \cup {"usage_capable", "quantity_graph_uuid", "flow_graph_uuid"}

InitRead == InitWith({Base}, Classes)

NextRead ==
    \/ \E p \in ReadReads : Read(p)
    \/ Expire
    \/ \E doc \in ReadDocs : RemoteReplace(doc)

SpecRead == InitRead /\ [][NextRead]_vars

----------------------------------------------------------------------------
(* SpecAbsent: reads of every property while the device comes and goes     *)
(* from the two collections of the remote document.                        *)

StatusOnly == Doc(<<OtherStatus, BaseStatus>>, <<OtherConfig>>)
ConfigOnly == Doc(<<OtherStatus>>, <<OtherConfig, BaseConfig>>)

AbsentDocs == {Base, Unlisted, StatusOnly, ConfigOnly}

InitAbsent == InitWith(AbsentDocs, Classes)

NextAbsent ==
    \/ \E p \in AllProperties : Read(p)
    \/ Expire
    \/ \E doc \in AbsentDocs : RemoteReplace(doc)

SpecAbsent == InitAbsent /\ [][NextAbsent]_vars

----------------------------------------------------------------------------
(* SpecMemo: reads of the memoized fields while the remote document        *)
(* changes in the fields they come from and the cache expires.             *)

\* The largest zwave position the service reports.
MaxIndex == 1

MemoizedProperties ==
    {"device_uuid", "device_type", "zwave_index", "zwave_uuid", "usage_capable"}

MemoChanges ==
    {[key |-> "deviceStatusInfo", field |-> "devUUID", value |-> v] :
        v \in {PyStr("uuid-2"), Absent}}
    \cup {[key |-> "deviceConfigInfo", field |-> "devType", value |-> v] :
        v \in {Absent}}
    \cup {[key |-> "deviceConfigInfo", field |-> "position", value |-> v] :
        v \in {PyInt(i) : i \in 0..MaxIndex} \cup {Absent}}
    \cup {[key |-> "deviceConfigInfo", field |-> "zwUuid", value |-> v] :
        v \in {PyStr("")}}
    \cup {[key |-> "deviceConfigInfo", field |-> "usageCapable", value |-> v] :
        v \in {PyBool(FALSE), Absent}}

MemoDocs == {Base, Unlisted} \cup {Change(Base, c) : c \in MemoChanges}

InitMemo == InitWith(MemoDocs, {"SmartPlug"})

NextMemo ==
    \/ \E p \in MemoizedProperties : Read(p)
    \/ Expire
    \/ \E doc \in MemoDocs : RemoteReplace(doc)

SpecMemo == InitMemo /\ [][NextMemo]_vars

----------------------------------------------------------------------------
(* SpecIdent: reads of the four identifiers of a Switch between state      *)
(* changes, cache expiry and replacements of the remote document by one    *)
(* that reports another identifier, a falsy one or none.                   *)

IdentifierProperties == {"device_uuid", "device_type", "zwave_index", "zwave_uuid"}

IdentChanges ==
    {[key |-> "deviceStatusInfo", field |-> "devUUID", value |-> PyStr("uuid-2")],
     [key |-> "deviceConfigInfo", field |-> "devType", value |-> Absent],
     [key |-> "deviceConfigInfo", field |-> "position", value |-> PyInt(0)],
     [key |-> "deviceConfigInfo", field |-> "zwUuid", value |-> PyStr("")]}

IdentDocs == {Base, Unlisted} \cup {Change(Base, c) : c \in IdentChanges}

InitIdent == InitWith(IdentDocs, {"Switch"})

NextIdent ==
    \/ \E p \in IdentifierProperties : Read(p)
    \/ Toggle
    \/ TurnOn
    \/ TurnOff
    \/ Expire
    \/ \E doc \in IdentDocs : RemoteReplace(doc)

SpecIdent == InitIdent /\ [][NextIdent]_vars

----------------------------------------------------------------------------
(* SpecFrame: every read of the three classes next to the state changes,   *)
(* while the device comes and goes from the remote document and the cache  *)
(* expires.                                                                *)

FrameDocs == {Base, Unlisted}

InitFrame == InitWith(FrameDocs, Classes)

NextFrame ==
    \/ \E p \in AllProperties : Read(p)
    \/ Toggle
    \/ TurnOn
    \/ TurnOff
    \/ ChangeState
    \/ Expire
    \/ \E doc \in FrameDocs : RemoteReplace(doc)

SpecFrame == InitFrame /\ [][NextFrame]_vars

----------------------------------------------------------------------------
(* SpecScan: _get_value on collections of up to MaxEntries entries, in     *)
(* every order, with the device listed never, once or more than once and   *)
(* with the field present or missing in each entry.  next() takes the      *)
(* first match of whatever list the session hands over.                    *)

MaxEntries == 2

ScanFields == {"currentState", "switchLocked"}

ScanEntries ==
    {Field("name", PyStr(n)) @@ Field("currentState", s) :
        n \in {DeviceName, OtherName}, s \in {PyInt(0), PyInt(1), Absent}}

ScanItems == UNION {[1..n -> ScanEntries] : n \in 0..MaxEntries}

ScanDocs == {Doc(statusItems, configItems) :
                statusItems \in ScanItems, configItems \in ScanItems}

InitScan == InitWith(ScanDocs, {"Switch"})

NextScan ==
    \/ \E field \in ScanFields, config \in BOOLEAN : GetValue(field, config)
    \/ Expire

SpecScan == InitScan /\ [][NextScan]_vars

----------------------------------------------------------------------------
(* What a document says about the device, read off the document itself.    *)

\* The snapshot a call made now is served from.
Current == IF cache = <<>> THEN remote ELSE cache[1]

Listed(doc, key) ==
    \E i \in DOMAIN doc[key].device : doc[key].device[i].name = self._name

Item(doc, key) ==
    doc[key].device[CHOOSE i \in DOMAIN doc[key].device :
                        doc[key].device[i].name = self._name]

Has(doc, key, f) == Listed(doc, key) /\ f \in DOMAIN Item(doc, key)

\* The field's value is one Python takes as true.
Holds(doc, key, f) ==
    /\ Has(doc, key, f)
    /\ Item(doc, key)[f] \notin {None, PyBool(FALSE), PyInt(0), PyStr("")}

\* The state the document reports for the device, None when it reports none.
StateIn(doc) ==
    IF Has(doc, "deviceStatusInfo", "currentState")
    THEN Item(doc, "deviceStatusInfo").currentState
    ELSE None

\* The field as the document gives it, None when it gives none.
Raw(doc, key, f) == IF Has(doc, key, f) THEN Item(doc, key)[f] ELSE None

Connected(doc) == Holds(doc, "deviceStatusInfo", "isConnected")
Locked(doc) == Holds(doc, "deviceConfigInfo", "switchLocked")
On(doc) == Holds(doc, "deviceStatusInfo", "currentState")
MayToggle(doc) == Connected(doc) /\ ~Locked(doc)

\* The requests and cache invalidations of a call, in order.
IsEffect(e) == e.ev \in {"GET", "PUT", "clear_cache"}
Effects(tr) == SelectSeq(tr, IsEffect)

WriteOps == {"_change_state", "turn_on", "turn_off", "toggle"}

\* The integer a call asks the service to store.
Requested(call, doc) ==
    CASE call.op = "turn_on" -> PyInt(1)
      [] call.op = "turn_off" -> PyInt(0)
      [] call.op = "toggle" -> (IF On(doc) THEN PyInt(0) ELSE PyInt(1))
      [] call.op = "_change_state" ->
            (IF call.arg \in {PyInt(1), PyBool(TRUE)} THEN PyInt(1) ELSE PyInt(0))

DeviceUrlOf(obj) == api_url \o "/devices/" \o Format(obj._device_uuid)

\* One GET, then one PUT of the GET's body with currentState replaced by
\* `state`, both to the device's URL, then one cache invalidation.
GetPutClear(tr, obj, state) ==
    LET h == Effects(tr)
    IN /\ Len(h) = 3
       /\ h[1].ev = "GET" /\ h[2].ev = "PUT" /\ h[3].ev = "clear_cache"
       /\ h[1].url = DeviceUrlOf(obj) /\ h[2].url = DeviceUrlOf(obj)
       /\ DOMAIN h[2].body = DOMAIN h[1].body \cup {"currentState"}
       /\ \A f \in DOMAIN h[2].body :
            h[2].body[f] = IF f = "currentState" THEN state ELSE h[1].body[f]
       /\ tr[Len(tr)].ev = "clear_cache"

----------------------------------------------------------------------------
(* The write path                                                          *)

C1Step ==
    (MayToggle(Current) /\ last'.op \in {"_change_state", "turn_on", "turn_off"})
    => /\ GetPutClear(trace', self', Requested(last', Current))
       /\ cache' = <<>>
       /\ last'.ret = PyBool(TRUE)

\* C1: when can_toggle is true, a call of _change_state(state) issues one
\* GET and then one PUT to the device's URL, the PUT body being the GET
\* body with currentState replaced by int(state), then invalidates the
\* session cache once, and returns True.
C1_GetPutInvalidate == [][C1Step]_vars

C1_Witness ==
    /\ last.op = "_change_state" /\ last.arg = PyBool(TRUE)
    /\ last.ret = PyBool(TRUE)
    /\ \E i \in DOMAIN trace :
        /\ trace[i].ev = "PUT" /\ trace[i].ok
        /\ trace[i].body.currentState = PyInt(1)
    /\ StateIn(remote) = PyInt(1)

C2Step ==
    (~MayToggle(Current) /\ last'.op \in WriteOps)
    => /\ last'.ret = PyBool(FALSE)
       /\ Effects(trace') = <<>>
       /\ cache' = <<Current>>
       /\ remote' = remote
       /\ On(cache'[1]) = On(Current)

\* C2: when can_toggle is false, turn_on, turn_off, toggle and
\* _change_state return False, issue no GET and no PUT, do not invalidate
\* the session cache, and leave the device's status as it was.
C2_DeniedIsNoOp == [][C2Step]_vars

C2_Witness ==
    /\ last.op = "turn_on" /\ last.ret = PyBool(FALSE)
    /\ cache # <<>>
    /\ Connected(cache[1]) /\ Locked(cache[1]) /\ ~On(cache[1])
    /\ Effects(trace) = <<>>

C7Inv ==
    (last.op \in WriteOps /\ last.ret = PyBool(TRUE)) => cache = <<>>

C7Step ==
    /\ (last'.op \in {"turn_on", "turn_off"} /\ MayToggle(Current))
        => (last'.ret = PyBool(TRUE) /\ cache' = <<>>)
    /\ (cache = <<>> /\ last'.op \in {"status", "current_state"})
        => /\ trace'[1].ev = "fetch"
           /\ cache' = <<remote>>
           /\ last'.op = "status"
                => last'.ret = (IF On(remote) THEN PyStr("on") ELSE PyStr("off"))
           /\ last'.op = "current_state"
                => last'.ret = StateIn(remote)

C8Step ==
    last'.op = "toggle"
    => \E accepted \in BOOLEAN :
        LET state == IF On(Current) THEN PyBool(FALSE) ELSE PyBool(TRUE)
            r == _change_state(Begin, state, accepted)
        IN /\ last'.ret = r.ret
           /\ Effects(trace') = Effects(r.ctx.trace)
           /\ cache' = r.ctx.cache
           /\ remote' = r.ctx.remote
           /\ self' = r.ctx.self
           /\ MayToggle(Current)
                => GetPutClear(trace', self',
                               IF StateIn(Current) = PyInt(1) THEN PyInt(0)
                               ELSE IF StateIn(Current) \in {PyInt(0), None}
                                    THEN PyInt(1)
                                    ELSE PyInt(0))

\* C8: toggle() does what _change_state(not current_state) does on the
\* snapshot of the call: the same return value, requests, invalidation and
\* remote result; with current_state 1 it writes currentState 0, with
\* current_state 0 or absent it writes currentState 1.
C8_ToggleIsChangeStateNot == [][C8Step]_vars

C8_Witness ==
    /\ last.op = "toggle" /\ last.ret = PyBool(TRUE)
    /\ \E i \in DOMAIN trace :
        /\ trace[i].ev = "PUT" /\ trace[i].ok
        /\ trace[i].body.currentState = PyInt(0)
    /\ StateIn(remote) = PyInt(0)

C9Step ==
    (MayToggle(Current) /\ last'.op \in WriteOps)
    => /\ last'.ret = PyBool(TRUE)
       /\ cache' = <<>>
       /\ Len(Effects(trace')) = 3
       /\ Effects(trace')[2].ev = "PUT"
       /\ Effects(trace')[3].ev = "clear_cache"
       /\ ~Effects(trace')[2].ok => remote' = remote

\* C9: whenever can_toggle is true, _change_state invalidates the session
\* cache and returns True whatever the answer to the PUT is; a write the
\* remote service rejected is reported as success and leaves the remote
\* state of the device as it was.
C9_RejectedWriteReportsSuccess == [][C9Step]_vars

C9_Witness ==
    /\ last.op = "turn_on" /\ last.ret = PyBool(TRUE)
    /\ cache = <<>>
    /\ \E i \in DOMAIN trace : trace[i].ev = "PUT" /\ ~trace[i].ok
    /\ StateIn(remote) = PyInt(0)

----------------------------------------------------------------------------
(* Reads                                                                   *)

\* C4: can_toggle is true if and only if is_connected is true and
\* is_locked is false, on every snapshot: those with the isConnected or
\* switchLocked field true, false or missing, and the one without the
\* device.
C4_CanToggleIff ==
    last.op = "can_toggle"
    => LET connected == is_connected(Begin).ret
           locked == is_locked(Begin).ret
       IN /\ connected = PyBool(Connected(cache[1]))
          /\ locked = PyBool(Locked(cache[1]))
          /\ last.ret = PyBool(connected = PyBool(TRUE) /\ locked = PyBool(FALSE))

C4_Witness ==
    /\ last.op = "can_toggle" /\ last.ret = PyBool(FALSE)
    /\ Raw(cache[1], "deviceStatusInfo", "isConnected") = PyBool(TRUE)
    /\ Raw(cache[1], "deviceConfigInfo", "switchLocked") = PyBool(TRUE)

UsageField(p) ==
    CASE p = "average_usage" -> "avgUsage"
      [] p = "current_usage" -> "currentUsage"
      [] p = "daily_usage" -> "dayUsage"

\* C6: average_usage, current_usage and daily_usage return 0 whenever
\* usage_capable is false, whatever the snapshot holds in avgUsage,
\* currentUsage and dayUsage, and return the status field of the device's
\* entry when usage_capable is true.
C6_UsageGated ==
    last.op \in UsageProperties
    => /\ self._usage_capable \in {PyBool(TRUE), PyBool(FALSE)}
       /\ usage_capable(Begin).ret = self._usage_capable
       /\ self._usage_capable = PyBool(FALSE) => last.ret = PyInt(0)
       /\ self._usage_capable = PyBool(TRUE)
            => last.ret = Raw(cache[1], "deviceStatusInfo", UsageField(last.op))

C6_Witness ==
    /\ last.op = "current_usage" /\ last.ret = PyInt(0)
    /\ self._usage_capable = PyBool(FALSE)
    /\ Raw(cache[1], "deviceStatusInfo", "currentUsage") = PyInt(22)

\* What a property that is looked up on every access returns on a document.
Volatile(p, doc) ==
    CASE p = "current_state" -> Raw(doc, "deviceStatusInfo", "currentState")
      [] p = "status" -> (IF On(doc) THEN PyStr("on") ELSE PyStr("off"))
      [] p = "is_connected" -> PyBool(Connected(doc))
      [] p = "is_locked" -> PyBool(Locked(doc))
      [] p = "can_toggle" -> PyBool(MayToggle(doc))
      [] p = "in_switch_all_group" -> PyBool(Holds(doc, "deviceConfigInfo", "inSwitchAll"))
      [] p = "in_switch_schedule" ->
            PyBool(Holds(doc, "deviceConfigInfo", "inSwitchSchedule"))
      [] p = "network_health_state" -> Raw(doc, "deviceStatusInfo", "networkHealthState")
      [] p = "rgb_color" -> Raw(doc, "deviceStatusInfo", "rgbColor")

C10Step ==
    last'.op \in VolatileProperties
    => /\ last'.ret = Volatile(last'.op, Current)
       /\ cache' = <<Current>>
       /\ self' = self

\* C10: current_state, status, is_connected, is_locked, can_toggle,
\* in_switch_all_group, in_switch_schedule, network_health_state and
\* rgb_color are never memoized: every access returns the value the
\* session's snapshot of that moment gives, whatever earlier snapshots
\* gave, and stores nothing in the device object.
C10_VolatileReadFresh == [][C10Step]_vars

C10_Witness ==
    /\ last.op = "is_locked" /\ last.ret = PyBool(TRUE)
    /\ trace[1].ev = "fetch"
    /\ cache[1] = Change(Base, [key |-> "deviceConfigInfo", field |-> "switchLocked",
                                 value |-> PyBool(TRUE)])

\* The attribute a memoized property keeps its value in, and the snapshot
\* field it takes it from.
MemoAttr(p) == "_" \o p

MemoField(p) ==
    CASE p = "device_uuid" -> "devUUID"
      [] p = "device_type" -> "devType"
      [] p = "zwave_index" -> "position"
      [] p = "zwave_uuid" -> "zwUuid"
      [] p = "usage_capable" -> "usageCapable"

LooksUp(tr, f) == \E i \in DOMAIN tr : tr[i].ev = "lookup" /\ tr[i].field = f

\* The field was fetched before: the call before this one read it, or the
\* attribute holds a fetched value.
Fetched(p) == last.op = p \/ self[MemoAttr(p)] # None

C3Step ==
    (last'.op \in MemoizedProperties /\ Fetched(last'.op))
    => ~LooksUp(trace', MemoField(last'.op))

\* C3: device_uuid, device_type, zwave_index, zwave_uuid and usage_capable
\* are fetched from the snapshot at most once per device object: an access
\* that follows an earlier access of the field performs no snapshot lookup
\* for it, whatever value the first fetch returned.
C3_FetchedAtMostOnce == [][C3Step]_vars

RawProperties ==
    {"current_state", "network_health_state", "quantity_graph_uuid",
     "flow_graph_uuid", "rgb_color"}

BooleanProperties ==
    {"is_connected", "is_locked", "can_toggle", "in_switch_all_group",
     "in_switch_schedule"}

NotListed(doc) ==
    ~Listed(doc, "deviceStatusInfo") /\ ~Listed(doc, "deviceConfigInfo")

C5Step ==
    (last'.op # "" /\ NotListed(Current))
    => LET p == last'.op
       IN /\ p \in RawProperties => last'.ret = None
          /\ p \in BooleanProperties => last'.ret = PyBool(FALSE)
          /\ p = "status" => last'.ret = PyStr("off")
          /\ p = "usage_capable"
                => last'.ret = (IF self._usage_capable = None THEN PyBool(FALSE)
                                ELSE self._usage_capable)
          /\ p \in UsageProperties
                => last'.ret = (IF self._usage_capable = PyBool(TRUE) THEN None
                                ELSE PyInt(0))
          /\ p \in MemoizedProperties \ {"usage_capable"}
                => last'.ret = (IF self[MemoAttr(p)] = None THEN None
                                ELSE self[MemoAttr(p)])
          /\ p = "name" => last'.ret = self._name

----------------------------------------------------------------------------
(* The snapshot lookup                                                     *)

\* The entries of a collection that carry the device's name, by position.
Named(items) == {i \in DOMAIN items : Get(items[i], "name") = self._name}

\* The field of the first of them, None when there is none or when that
\* entry has no such field.
FirstField(doc, key, f) ==
    LET items == doc[key].device
    IN IF Named(items) = {} THEN None
       ELSE LET first == CHOOSE i \in Named(items) : \A j \in 1..(i - 1) : j \notin Named(items)
            IN IF f \in DOMAIN items[first] THEN items[first][f] ELSE None

Chosen(config) == IF config THEN "deviceConfigInfo" ELSE "deviceStatusInfo"

Lookups(tr) == SelectSeq(tr, LAMBDA e : e.ev = "lookup")

\* C11: _get_value(field, config) scans the chosen collection only
\* (deviceConfigInfo when config is true, deviceStatusInfo otherwise) and
\* returns the field of the first entry that carries the device's name;
\* it returns None when no entry carries the name or when that first entry
\* has no such field, whatever later entries and the other collection hold.
C11_FirstMatchOfChosen ==
    last.op = "_get_value"
    => /\ last.ret = FirstField(cache[1], Chosen(last.arg.config), last.arg.field)
       /\ Len(Lookups(trace)) = 1
       /\ Lookups(trace)[1].key = Chosen(last.arg.config)
       /\ Effects(trace) = <<>>

C11_Witness ==
    /\ last.op = "_get_value" /\ last.ret = None
    /\ last.arg = [field |-> "currentState", config |-> FALSE]
    /\ cache[1].deviceStatusInfo.device =
            <<Field("name", PyStr(DeviceName)),
              Field("name", PyStr(DeviceName)) @@ Field("currentState", PyInt(1))>>
    /\ cache[1].deviceConfigInfo.device =
            <<Field("name", PyStr(DeviceName)) @@ Field("currentState", PyInt(1))>>

----------------------------------------------------------------------------
(* The memoized identifiers                                                *)

\* The collection a memoized property takes its field from.
MemoKey(p) == IF p = "device_uuid" THEN "deviceStatusInfo" ELSE "deviceConfigInfo"

C12Step ==
    \A p \in IdentifierProperties :
        /\ Truthy(self[MemoAttr(p)])
            => /\ self'[MemoAttr(p)] = self[MemoAttr(p)]
               /\ last'.op = p
                    => /\ last'.ret = self[MemoAttr(p)]
                       /\ ~LooksUp(trace', MemoField(p))
        /\ (~Truthy(self[MemoAttr(p)]) /\ last'.op = p)
            => /\ LooksUp(trace', MemoField(p))
               /\ last'.ret = Raw(Current, MemoKey(p), MemoField(p))
               /\ self'[MemoAttr(p)] = last'.ret

\* C12: an identifier attribute (device_uuid, device_type, zwave_index,
\* zwave_uuid) that holds a truthy value keeps it through every read,
\* state change, cache expiry and replacement of the remote document, and
\* a read of the property returns it without a lookup; an attribute that
\* holds None or a falsy fetched value (0, "") is not taken as populated:
\* a read of the property looks the field up again and returns and stores
\* what the snapshot of that moment gives.
C12_TruthyIdentifierIsKept == [][C12Step]_vars

\* zwave_index was fetched as 0 and device_uuid as "uuid-plug1"; the
\* remote document now reports another devUUID and position 1.  The read of
\* device_uuid returned the stored value; a read of zwave_index now
\* returns 1.
C12_Witness ==
    /\ self._zwave_index = PyInt(0)
    /\ last.op = "device_uuid" /\ last.ret = PyStr("uuid-plug1")
    /\ Raw(Current, "deviceStatusInfo", "devUUID") = PyStr("uuid-2")
    /\ ENABLED (Read("zwave_index") /\ last'.ret = PyInt(1)
                    /\ LooksUp(trace', "position"))

----------------------------------------------------------------------------
(* What a read may change                                                  *)

MemoAttrs == {MemoAttr(p) : p \in MemoizedProperties}

C13Step ==
    /\ last'.op \in AllProperties
        => /\ Effects(trace') = <<>>
           /\ remote' = remote
           /\ cache # <<>> => cache' = cache
           /\ cache = <<>> => cache' \in {<<>>, <<remote>>}
           /\ DOMAIN self' = DOMAIN self
           /\ \A a \in DOMAIN self : self'[a] # self[a] => a \in MemoAttrs
    /\ (last'.op # "" /\ (StateIn(remote') # StateIn(remote)
                            \/ (cache # <<>> /\ cache' = <<>>)))
        => last'.op \in WriteOps

\* C13: a read of any property of a Switch, SmartPlug or Light issues no
\* GET and no PUT, does not invalidate the session cache, and leaves the
\* remote document and the snapshot it is served from as they are; of the
\* device object it changes at most the memoized attributes.  Of the calls
\* on a device object only _change_state, turn_on, turn_off and toggle
\* change the remote on/off state or invalidate the cache.
C13_ReadsAreFramed == [][C13Step]_vars

\* After a state change that stored currentState 1, a read of rgb_color
\* fetched the snapshot and issued no request.
C13_Witness ==
    /\ self.cls = "Light"
    /\ last.op = "rgb_color" /\ last.ret = PyStr("00FF00")
    /\ trace[1].ev = "fetch" /\ Effects(trace) = <<>>
    /\ cache = <<remote>> /\ StateIn(remote) = PyInt(1)

----------------------------------------------------------------------------
(* The states the public operations write                                  *)

Puts(tr) == SelectSeq(tr, LAMBDA e : e.ev = "PUT")

C14Step ==
    last'.op \in {"turn_on", "turn_off", "toggle"}
    => \A i \in DOMAIN Puts(trace') :
        LET written == Puts(trace')[i].body.currentState
        IN /\ written \in {PyInt(0), PyInt(1)}
           /\ last'.op = "turn_on" => written = PyInt(1)
           /\ last'.op = "turn_off" => written = PyInt(0)
           /\ last'.op = "toggle"
                => (written = PyInt(1)
                        <=> StateIn(Current) \in {None, PyInt(0)})

\* C14: every PUT of turn_on, turn_off and toggle carries the integer 0
\* or 1 in currentState, whatever the snapshot reports as the device's
\* state (0, 1, another integer, or none): turn_on writes 1, turn_off
\* writes 0, and toggle writes 1 exactly when the reported state is 0 or
\* missing.
C14_WritesZeroOrOne == [][C14Step]_vars

\* toggle on a device reported in state 2 sent currentState 0; the service
\* rejected the PUT, so the remote document still reports 2.
C14_Witness ==
    /\ last.op = "toggle"
    /\ Len(Puts(trace)) = 1
    /\ Puts(trace)[1].body.currentState = PyInt(0) /\ ~Puts(trace)[1].ok
    /\ StateIn(remote) = PyInt(2)

----------------------------------------------------------------------------
(* usage_capable                                                           *)

C15Step ==
    self.cls = "SmartPlug"
    => /\ self._usage_capable # None
            => /\ self'._usage_capable = self._usage_capable
               /\ ~LooksUp(trace', "usageCapable")
               /\ last'.op = "usage_capable" => last'.ret = self._usage_capable
       /\ (self._usage_capable = None
                /\ last'.op \in UsageProperties \cup {"usage_capable"})
            => self'._usage_capable =
                    PyBool(Holds(Current, "deviceConfigInfo", "usageCapable"))
       /\ (self._usage_capable = PyBool(FALSE) /\ last'.op \in UsageProperties)
            => /\ last'.ret = PyInt(0)
               /\ trace' = <<>>

\* C15: the first read of usage_capable (or of a usage figure, which reads
\* it) stores True or False, False also when usageCapable is false or
\* missing or the device is not listed, and the stored value stays for the
\* life of the object: later reads return it without a lookup whatever the
\* snapshot reports then, and with False stored average_usage,
\* current_usage and daily_usage return 0 without reading the snapshot.
C15_UsageCapableIsFixed == [][C15Step]_vars

\* usage_capable answered False from the stored value while the snapshot
\* in the cache reports usageCapable true.
C15_Witness ==
    /\ self.cls = "SmartPlug" /\ self._usage_capable = PyBool(FALSE)
    /\ last.op = "usage_capable" /\ last.ret = PyBool(FALSE)
    /\ trace = <<>>
    /\ cache # <<>>
    /\ Raw(cache[1], "deviceConfigInfo", "usageCapable") = PyBool(TRUE)

====
